---- MODULE Spec2Model ----
(***************************************************************************)
(* A model of scripts/qnetwork.py: the dense estimator QNetwork and the    *)
(* convolutional estimator ConvQNetwork.  An estimator owns a live network *)
(* (l_out), a target network (next_l_out), five shared input buffers and   *)
(* an update counter.  Numbers are exact rationals <<numerator,            *)
(* denominator>>; the gradient step of the update rule (lasagne.updates)   *)
(* is a choice among parameter values of the right shapes.                 *)
(***************************************************************************)
EXTENDS Integers, Sequences, FiniteSets, TLC

VARIABLES
    phase,               \* "new" | "ready" | "failed": how far __init__ got
    cfg,                 \* the constructor's arguments
    l_out,               \* self.l_out: the live network (layers with parameters)
    next_l_out,          \* self.next_l_out: the target network
    update_counter,      \* self.update_counter (-1: attribute not set)
    states_shared,       \* self.states_shared
    actions_shared,      \* self.actions_shared
    rewards_shared,      \* self.rewards_shared
    next_states_shared,  \* self.next_states_shared
    terminals_shared,    \* self.terminals_shared
    built,               \* construction steps of initialize_network that have run
    last,                \* the last call: operation, argument, result, error
    hist,                \* bookkeeping over the train calls of the run
    lossIn,              \* inputs of the per-row loss computation
    lossOut              \* its results

estimator == <<phase, cfg, l_out, next_l_out, update_counter, states_shared,
               actions_shared, rewards_shared, next_states_shared,
               terminals_shared, built, last, hist>>

vars == <<phase, cfg, l_out, next_l_out, update_counter, states_shared,
          actions_shared, rewards_shared, next_states_shared,
          terminals_shared, built, last, hist, lossIn, lossOut>>

(***************************************************************************)
(* Bounds of the model.                                                    *)
(***************************************************************************)
MaxCalls == 3      \* train calls in a run of all the operations
MaxTrainCalls == 5 \* train calls in a run of train calls
MaxFreeze == 2     \* largest freeze_interval
MaxHidden == 2     \* largest num_hidden_layers
MaxQ == 1          \* Q-values range over -MaxQ/2 .. MaxQ/2
MaxReward == 2     \* rewards range over -MaxReward/2 .. MaxReward/2
DiscDen == 2       \* discounts are 0/DiscDen .. DiscDen/DiscDen
MaxDiff == 4       \* sample TD errors range over -MaxDiff/2 .. MaxDiff/2
MaxRoomSize == 3   \* largest room_size of a state adapter
MaxCoord == 4      \* coordinates range over -MaxCoord .. MaxCoord

(***************************************************************************)
(* The configuration the estimator is built with.                          *)
(***************************************************************************)
batch_size == 2
input_shape == 1
num_hidden == 1
num_actions == 2

(***************************************************************************)
(* Exact rational arithmetic.                                              *)
(***************************************************************************)
RECURSIVE Gcd(_, _)
Gcd(a, b) == IF b = 0 THEN a ELSE Gcd(b, a % b)

IAbs(n) == IF n < 0 THEN -n ELSE n

Pairs == Int \X Int

Normalize[p \in Pairs] ==
    LET s == IF p[2] < 0 THEN -1 ELSE 1
        g == Gcd(IAbs(p[1]), IAbs(p[2]))
    IN  <<(s * p[1]) \div g, (s * p[2]) \div g>>

Rat(n, d) == Normalize[<<n, d>>]

Zero == <<0, 1>>
One == <<1, 1>>
Half == <<1, 2>>

Sum[p \in Pairs \X Pairs] ==
    Rat(p[1][1] * p[2][2] + p[2][1] * p[1][2], p[1][2] * p[2][2])
Product[p \in Pairs \X Pairs] == Rat(p[1][1] * p[2][1], p[1][2] * p[2][2])
AtMost[p \in Pairs \X Pairs] == p[1][1] * p[2][2] <= p[2][1] * p[1][2]
Minimum[p \in Pairs \X Pairs] == IF AtMost[p] THEN p[1] ELSE p[2]
Maximum[p \in Pairs \X Pairs] == IF AtMost[p] THEN p[2] ELSE p[1]
Magnitude[x \in Pairs] == <<IAbs(x[1]), x[2]>>

RAdd(x, y) == Sum[<<x, y>>]
RMul(x, y) == Product[<<x, y>>]
RSub(x, y) == Sum[<<x, Product[<<y, <<-1, 1>> >>]>>]
RLeq(x, y) == AtMost[<<x, y>>]
RAbs(x) == Magnitude[x]
RMin(x, y) == Minimum[<<x, y>>]
RMax(x, y) == Maximum[<<x, y>>]

RECURSIVE RSum(_)
RSum(s) == IF s = <<>> THEN Zero ELSE RAdd(Head(s), RSum(Tail(s)))

RECURSIVE RMaxSeq(_)
RMaxSeq(s) == IF Len(s) = 1 THEN s[1] ELSE RMax(Head(s), RMaxSeq(Tail(s)))

(***************************************************************************)
(* Arrays are records of a shape and nested sequences of numbers.          *)
(***************************************************************************)
NoArray == [shape |-> <<>>, data |-> <<>>]

\* f gives the element at each index
Vector(n, f) == [shape |-> <<n>>, data |-> [i \in 1..n |-> f[i]]]

Matrix(r, c, f) ==
    [shape |-> <<r, c>>, data |-> [i \in 1..r |-> [j \in 1..c |-> f[i, j]]]]

\* np.zeros((rows, cols))
Zeros(r, c) == Matrix(r, c, [i \in 1..r, j \in 1..c |-> Zero])

\* np.zeros((rows, cols), dtype='int32')
IntZeros(r, c) == Matrix(r, c, [i \in 1..r, j \in 1..c |-> 0])

\* np.zeros((batch, 1, h, w))
Zeros4(n, h, w) ==
    [shape |-> <<n, 1, h, w>>,
     data |-> [i \in 1..n |-> <<[r \in 1..h |-> [c \in 1..w |-> Zero]]>>]]

(***************************************************************************)
(* Layers.  A network is the sequence of the layers one build_network call *)
(* constructed, with the index of the layer it returned.                   *)
(***************************************************************************)
InputLayer == [kind |-> "input", incoming |-> 0, W |-> NoArray, b |-> NoArray]

\* lasagne.init.HeNormal(): the n-th draw from the seeded generator
HeNormalValue(seed, n, i, j) == Rat(((seed + n + i + j) % 3) - 1, 1)

HeNormal(seed, n, r, c) ==
    Matrix(r, c, [i \in 1..r, j \in 1..c |-> HeNormalValue(seed, n, i, j)])

Constant(n, v) == Vector(n, [i \in 1..n |-> v])

DenseLayer(incoming, num_inputs, num_units, nonlinearity, seed, n, bias) ==
    [kind |-> "dense", incoming |-> incoming, nonlinearity |-> nonlinearity,
     W |-> HeNormal(seed, n, num_inputs, num_units),
     b |-> Constant(num_units, bias)]

\* W has shape (num_filters, input channels, 1, 1)
Conv2DLayer(incoming, num_filters, seed, n, bias) ==
    [kind |-> "conv", incoming |-> incoming, nonlinearity |-> "leaky_rectify",
     W |-> [shape |-> <<num_filters, 1, 1, 1>>,
            data |-> [f \in 1..num_filters |->
                        <<<< <<HeNormalValue(seed, n, f, 1)>> >>>>]],
     b |-> Constant(num_filters, bias)]

\* a build_network whose hidden layers form a chain: each takes the layer
\* constructed before it as its source
DenseBuildNetworkChained(num_hidden_layers, seed, drawn) ==
    LET hidden == [h \in 1..num_hidden_layers |->
                     DenseLayer(h, IF h = 1 THEN input_shape ELSE num_hidden,
                                num_hidden, "leaky_rectify", seed, drawn + h,
                                Rat(1, 10))]
        l_hid == num_hidden_layers + 1
        n_in == IF num_hidden_layers = 0 THEN input_shape ELSE num_hidden
    IN  [layers |-> <<InputLayer>> \o hidden \o
                    <<DenseLayer(l_hid, n_in, num_actions, "linear", seed,
                                 drawn + num_hidden_layers + 1, Zero)>>,
         out |-> num_hidden_layers + 2]

\* QNetwork.build_network: every hidden layer takes l_in (layer 1) as its
\* source; the output layer takes l_hid, the last hidden layer constructed.
DenseBuildNetwork(num_hidden_layers, seed, drawn) ==
    LET hidden == [h \in 1..num_hidden_layers |->
                     DenseLayer(1, input_shape, num_hidden, "leaky_rectify",
                                seed, drawn + h, Rat(1, 10))]
        l_hid == IF num_hidden_layers = 0 THEN 1 ELSE num_hidden_layers + 1
        n_in == IF num_hidden_layers = 0 THEN input_shape ELSE num_hidden
    IN  [layers |-> <<InputLayer>> \o hidden \o
                    <<DenseLayer(l_hid, n_in, num_actions, "linear", seed,
                                 drawn + num_hidden_layers + 1, Zero)>>,
         out |-> num_hidden_layers + 2]

\* ConvQNetwork.build_network: input, one 1x1 convolution, the output layer.
\* The input is a 1 x input_shape grid with one channel.
ConvBuildNetwork(seed, drawn) ==
    [layers |-> <<InputLayer,
                  Conv2DLayer(1, num_hidden, seed, drawn + 1, Rat(1, 10)),
                  DenseLayer(2, num_hidden * input_shape, num_actions,
                             "linear", seed, drawn + 2, Zero)>>,
     out |-> 3]

NoNetwork == [layers |-> <<>>, out |-> 0]

(***************************************************************************)
(* lasagne.layers.get_output: the forward pass of one row of a batch.      *)
(***************************************************************************)
LeakyRectify(x) == IF RLeq(Zero, x) THEN x ELSE RMul(Rat(1, 100), x)

Nonlinearity(name, x) == IF name = "leaky_rectify" THEN LeakyRectify(x) ELSE x

\* DenseLayer flattens the (channel, row, column) output of a convolution
Flatten(x) ==
    LET h == Len(x[1])
        w == Len(x[1][1])
    IN  [k \in 1..(Len(x) * h * w) |->
            x[((k - 1) \div (h * w)) + 1]
             [(((k - 1) % (h * w)) \div w) + 1]
             [((k - 1) % w) + 1]]

DenseApply(layer, x) ==
    [j \in 1..layer.W.shape[2] |->
        Nonlinearity(layer.nonlinearity,
            RAdd(RSum([i \in 1..layer.W.shape[1] |->
                         RMul(x[i], layer.W.data[i][j])]),
                 layer.b.data[j]))]

ConvApply(layer, x) ==
    [f \in 1..layer.W.shape[1] |->
        [r \in 1..Len(x[1]) |->
            [c \in 1..Len(x[1][1]) |->
                Nonlinearity(layer.nonlinearity,
                    RAdd(RSum([ch \in 1..Len(x) |->
                                 RMul(layer.W.data[f][ch][1][1], x[ch][r][c])]),
                         layer.b.data[f]))]]]

RECURSIVE LayerOutput(_, _, _)
LayerOutput(net, idx, x) ==
    LET layer == net.layers[idx]
        dense(y) == DenseApply(layer,
                        IF net.layers[layer.incoming].kind = "conv"
                        THEN Flatten(y) ELSE y)
        conv(y) == ConvApply(layer, y)
    IN  CASE layer.kind = "input" -> x
          [] layer.kind = "dense" ->
                CHOOSE r \in {dense(y) : y \in {LayerOutput(net, layer.incoming, x)}} : TRUE
          [] layer.kind = "conv" ->
                CHOOSE r \in {conv(y) : y \in {LayerOutput(net, layer.incoming, x)}} : TRUE

\* lasagne.layers.get_output(net, batch): one row of Q-values per input row
GetOutput(net, rows) == [i \in 1..Len(rows) |-> LayerOutput(net, net.out, rows[i])]

(***************************************************************************)
(* lasagne.layers.helper: the parameters reachable from the output layer.  *)
(***************************************************************************)
RECURSIVE LayersTo(_, _)
LayersTo(net, idx) ==
    IF idx = 0 THEN <<>> ELSE LayersTo(net, net.layers[idx].incoming) \o <<idx>>

GetAllLayers(net) == LayersTo(net, net.out)

RECURSIVE ParamsOf(_, _)
ParamsOf(net, idxs) ==
    IF idxs = <<>> THEN <<>>
    ELSE (IF net.layers[Head(idxs)].kind = "input" THEN <<>>
          ELSE << <<Head(idxs), "W">>, <<Head(idxs), "b">> >>)
         \o ParamsOf(net, Tail(idxs))

GetAllParams(net) == ParamsOf(net, GetAllLayers(net))

ParamValue(net, p) ==
    IF p[2] = "W" THEN net.layers[p[1]].W ELSE net.layers[p[1]].b

GetAllParamValues(net) ==
    LET params == GetAllParams(net)
    IN  [k \in 1..Len(params) |-> ParamValue(net, params[k])]

SetParamValue(net, p, v) ==
    IF p[2] = "W" THEN [net EXCEPT !.layers[p[1]].W = v]
    ELSE [net EXCEPT !.layers[p[1]].b = v]

\* the position of the first value whose shape is not its parameter's
\* (one past the end: every value fits)
FirstMisfit(net, params, values) ==
    LET bad == {k \in 1..Len(params) :
                    ParamValue(net, params[k]).shape # values[k].shape}
    IN  IF bad = {} THEN Len(params) + 1
        ELSE CHOOSE k \in bad : \A j \in bad : k <= j

\* set_all_param_values: ValueError when the number of values is not the
\* number of parameters; else the values are assigned in order, and a value
\* of another shape raises ValueError and leaves the earlier ones assigned
SetAllParamValues(net, values) ==
    LET run(params) ==
            LET assign(misfit) ==
                    LET new(idx, name, old) ==
                            LET ks == {k \in 1..(misfit - 1) :
                                          params[k] = <<idx, name>>}
                            IN  IF ks = {} THEN old
                                ELSE values[CHOOSE k \in ks : TRUE]
                    IN  [net |-> [net EXCEPT !.layers =
                                    [idx \in 1..Len(net.layers) |->
                                       IF net.layers[idx].kind = "input"
                                       THEN net.layers[idx]
                                       ELSE [net.layers[idx] EXCEPT
                                               !.W = new(idx, "W", @),
                                               !.b = new(idx, "b", @)]]],
                         error |-> IF misfit > Len(params) THEN "none"
                                   ELSE "ValueError"]
            IN  IF Len(params) # Len(values)
                THEN [net |-> net, error |-> "ValueError"]
                ELSE CHOOSE r \in {assign(k) : k \in {FirstMisfit(net, params, values)}} : TRUE
    IN  CHOOSE r \in {run(params) : params \in {GetAllParams(net)}} : TRUE

(***************************************************************************)
(* The loss of initialize_network, step 4, row by row.                     *)
(***************************************************************************)
\* Target without the terminal mask
TargetUnmasked(reward, terminal, discount, next_q_row) ==
    RAdd(reward, RMul(discount, RMaxSeq(next_q_row)))

\* QuadraticPart without the absolute value
QuadraticPartSigned(diff) == RMin(diff, One)

\* T.max(next_q_vals, axis=1, keepdims=True), one row
MaxOverActions(next_q_row) == RMaxSeq(next_q_row)

\* target = rewards + (ones_like(terminals) - terminals) * discount * max
Target(reward, terminal, discount, next_q_row) ==
    RAdd(reward,
         RMul(RMul(<<1 - terminal, 1>>, discount), MaxOverActions(next_q_row)))

\* diff = target - q_vals[arange(batch_size), actions]
Diff(target, q_row, action) == RSub(target, q_row[action + 1])

QuadraticPart(diff) == RMin(RAbs(diff), One)

LinearPart(diff) == RSub(RAbs(diff), QuadraticPart(diff))

\* loss = 0.5 * quadratic_part ** 2 + linear_part
RowLoss(diff) ==
    LET loss(quadratic_part) ==
            RAdd(RMul(Half, RMul(quadratic_part, quadratic_part)),
                 LinearPart(diff))
    IN  CHOOSE r \in {loss(q) : q \in {QuadraticPart(diff)}} : TRUE

\* regularize_network_params(l_out, l2): the squared weights (not the biases)
\* of the layers reachable from the output
RECURSIVE Elements(_, _)
Elements(x, rank) ==
    IF rank = 0 THEN <<x>>
    ELSE IF x = <<>> THEN <<>>
         ELSE Elements(Head(x), rank - 1) \o Elements(Tail(x), rank)

SumSquares(array) ==
    LET e == Elements(array.data, Len(array.shape))
    IN  RSum([k \in 1..Len(e) |-> RMul(e[k], e[k])])

L2Penalty(net) ==
    LET params == GetAllParams(net)
    IN  RSum([k \in 1..Len(params) |->
                IF params[k][2] = "W"
                THEN SumSquares(ParamValue(net, params[k])) ELSE Zero])

\* T.sum(loss) in QNetwork, T.mean(loss) in ConvQNetwork
Aggregate(variant, row_losses) ==
    IF variant = "dense" THEN RSum(row_losses)
    ELSE RMul(RSum(row_losses), Rat(1, Len(row_losses)))

(***************************************************************************)
(* The estimator's configuration and inputs.                               *)
(***************************************************************************)
discount == Rat(1, 2)
regularization == Rat(1, 10)

Variants == {"dense", "conv"}
UpdateRules == {"adam", "rmsprop", "sgd", "unknown", "Adam"}
Seeds == {1, 2, 3}

\* one input row: a vector for QNetwork, a (1, 1, input_shape) grid for
\* ConvQNetwork
Row(variant, f) ==
    IF variant = "dense" THEN [j \in 1..input_shape |-> f[j]]
    ELSE << <<[j \in 1..input_shape |-> f[j]]>> >>

StatesArray(variant, n, g) ==
    [shape |-> IF variant = "dense" THEN <<n, input_shape>>
               ELSE <<n, 1, 1, input_shape>>,
     data |-> [i \in 1..n |-> Row(variant, [j \in 1..input_shape |-> g[i, j]])]]

\* a column of n values, or the same values as a flat (n,) array
Column(n, f, flat) ==
    IF flat THEN [shape |-> <<n>>, data |-> [i \in 1..n |-> f[i]]]
    ELSE [shape |-> <<n, 1>>, data |-> [i \in 1..n |-> <<f[i]>>]]

Fields == {"states", "actions", "rewards", "next_states", "terminals"}

\* what is wrong with a Transition Batch: nothing, or one of its arrays is
\* flat (one dimension short) or long (one row more than batch_size)
Defects == {<<"none", "none">>, <<"states", "flat">>, <<"actions", "flat">>,
            <<"states", "long">>, <<"rewards", "long">>,
            <<"terminals", "long">>}

BatchIds == {1, 2}

Batch(variant, id, defect) ==
    LET rows(field) == IF defect = <<field, "long">> THEN batch_size + 1
                       ELSE batch_size
        flat(field) == defect = <<field, "flat">>
        longest == 1..(batch_size + 1)
        s == [i \in longest, j \in 1..input_shape |-> Rat((id + i + j) % 2, 1)]
        ns == [i \in longest, j \in 1..input_shape |->
                 Rat((id + i + j + 1) % 2, 1)]
        a == [i \in longest |-> Rat((id + i) % num_actions, 1)]
        r == [i \in longest |-> Rat(((id + 2 * i) % 3) - 1, 1)]
        t == [i \in longest |-> Rat((id + i) % 2, 1)]
        flatten(arr) == [shape |-> <<arr.shape[1]>>,
                         data |-> [i \in 1..arr.shape[1] |-> Zero]]
        S == StatesArray(variant, rows("states"), s)
        NS == StatesArray(variant, rows("next_states"), ns)
    IN  [states |-> IF flat("states") THEN flatten(S) ELSE S,
         actions |-> Column(rows("actions"), a, flat("actions")),
         rewards |-> Column(rows("rewards"), r, flat("rewards")),
         next_states |-> IF flat("next_states") THEN flatten(NS) ELSE NS,
         terminals |-> Column(rows("terminals"), t, flat("terminals"))]

\* the single states get_q_values is asked about
QueryStates == {1, 2}

QueryState(variant, q) == Row(variant, [j \in 1..input_shape |-> Rat(q, 1)])

\* parameter values of the shapes of net's parameters, filled from c
Refill(net, c) ==
    LET old == GetAllParamValues(net)
        v(k, i, j) == Rat(((c + k + i + j) % 3) - 1, 1)
    IN  [k \in 1..Len(old) |->
           CASE Len(old[k].shape) = 1 ->
                    [shape |-> old[k].shape,
                     data |-> [i \in 1..old[k].shape[1] |-> v(k, i, 0)]]
             [] Len(old[k].shape) = 2 ->
                    [shape |-> old[k].shape,
                     data |-> [i \in 1..old[k].shape[1] |->
                                 [j \in 1..old[k].shape[2] |-> v(k, i, j)]]]
             [] OTHER ->
                    [shape |-> old[k].shape,
                     data |-> [i \in 1..old[k].shape[1] |->
                                 << << <<v(k, i, 0)>> >> >>]]]

Fillings == {1, 2}

\* what the update rule may leave in the live parameters after one step
UpdateOutcomes(net) ==
    {GetAllParamValues(net)} \cup {Refill(net, c) : c \in Fillings}

\* values that do not fit net: one array short
Misshapen(net) == LET good == Refill(net, 1) IN {SubSeq(good, 1, Len(good) - 1)}

\* astype('int32') of one number: truncation toward zero (every integer of
\* the model lies inside the 32-bit range)
AsInt32(x) == IF x[1] >= 0 THEN x[1] \div x[2] ELSE -((-x[1]) \div x[2])

AsTypeInt32(array) ==
    IF Len(array.shape) = 1
    THEN [array EXCEPT !.data = [i \in 1..Len(array.data) |-> AsInt32(array.data[i])]]
    ELSE [array EXCEPT !.data = [i \in 1..Len(array.data) |->
                                    [j \in 1..Len(array.data[i]) |->
                                        AsInt32(array.data[i][j])]]]

(***************************************************************************)
(* Shared variables and the compiled functions.                            *)
(***************************************************************************)
FieldOrder == <<"states", "actions", "rewards", "next_states", "terminals">>

\* the number of dimensions and the broadcastable pattern a shared variable
\* was created with
SharedNdim(variant, field) ==
    IF field \in {"states", "next_states"} /\ variant = "conv" THEN 4 ELSE 2

SharedIsColumn(field) == field \in {"actions", "rewards", "terminals"}

\* set_value accepts an array of the variable's number of dimensions whose
\* broadcastable dimension has length 1, and raises TypeError otherwise
SetValueAccepts(variant, field, array) ==
    /\ Len(array.shape) = SharedNdim(variant, field)
    /\ SharedIsColumn(field) => array.shape[2] = 1

\* the position in train's five set_value lines of the first one that raises
\* (6: none does)
RECURSIVE FirstRejected(_, _, _)
FirstRejected(variant, batch, k) ==
    IF k > Len(FieldOrder) THEN k
    ELSE IF SetValueAccepts(variant, FieldOrder[k], batch[FieldOrder[k]])
         THEN FirstRejected(variant, batch, k + 1)
         ELSE k

Position(field) == CHOOSE k \in 1..Len(FieldOrder) : FieldOrder[k] = field

\* whether the compiled graph runs on the buffers' shapes: the index arrays
\* arange(batch_size) and actions broadcast and stay inside q_vals, and the
\* elementwise operations of target and diff meet equal lengths
RunShapesOK(S, A, R, NS, T) ==
    /\ A.shape[1] = batch_size \/ A.shape[1] = 1 \/ batch_size = 1
    /\ S.shape[1] >= batch_size
    /\ R.shape[1] = T.shape[1]
    /\ T.shape[1] = NS.shape[1]
    /\ R.shape[1] = (IF A.shape[1] > batch_size THEN A.shape[1] ELSE batch_size)

\* the loss self._train() computes from the five buffers
TrainLoss(variant, live, target, S, A, R, NS, T) ==
    LET action(i) == IF A.shape[1] = 1 THEN A.data[1][1] ELSE A.data[i][1]
        loss(q) ==
            LET q_vals == q[1]
                next_q_vals == q[2]
                row(i) == RowLoss(Diff(Target(R.data[i][1], T.data[i][1],
                                              discount, next_q_vals[i]),
                                       q_vals[i], action(i)))
            IN  RAdd(Aggregate(variant, [i \in 1..R.shape[1] |-> row(i)]),
                     RMul(regularization, L2Penalty(live)))
    IN  CHOOSE r \in {loss(q) : q \in {<<GetOutput(live, S.data),
                                          GetOutput(target, NS.data)>>}} : TRUE

\* self._get_q_values(): the live network on the states buffer
GetQValuesFunction(live, S) == GetOutput(live, S.data)

\* reset_target_network that copies nothing
ResetTargetNetworkSkipped(live, target) == target

\* sync tests that are never due, due one call early, and due every
\* freeze_interval + 1 calls
SyncDueNever(counter, freeze_interval) == FALSE
SyncDueEarly(counter, freeze_interval) == (counter + 1) % freeze_interval = 0
SyncDueLate(counter, freeze_interval) == counter % (freeze_interval + 1) = 0

\* a fake batch that reuses the states buffer without clearing it
FakeBatchStale(variant, state) == [states_shared EXCEPT !.data[1] = state]

(***************************************************************************)
(* reset_target_network: the live parameter values, set into the target.   *)
(***************************************************************************)
ResetTargetNetwork(live, target) ==
    SetAllParamValues(target, GetAllParamValues(live)).net

\* train's test for a target sync
SyncDue(counter, freeze_interval) == counter % freeze_interval = 0

\* get_q_values' fake batch: zeros, with the state in the first row
FakeBatch(variant, state) ==
    LET zeros == StatesArray(variant, batch_size,
                             [i \in 1..batch_size, j \in 1..input_shape |-> Zero])
    IN  [zeros EXCEPT !.data[1] = state]

NoCall == [op |-> "none", arg |-> <<>>, result |-> <<>>, error |-> "none"]

\* calls: the train calls made; syncCall, syncLive: the number of the last
\* train call that copied live into target and the live values it copied;
\* targetUsed: the target values the last train call computed with;
\* overwritten, sinceOverwrite, gap: whether a call has overwritten the
\* target, the train calls made since, and the train calls counted between
\* the last two overwrites; trainSynced, sinceTrainSync, trainGap: the same,
\* counting only the overwrites train makes
NoHist == [calls |-> 0, syncCall |-> -1, syncLive |-> <<>>, targetUsed |-> <<>>,
           overwritten |-> FALSE, sinceOverwrite |-> 0, gap |-> -1,
           trainSynced |-> FALSE, sinceTrainSync |-> 0, trainGap |-> -1]

(***************************************************************************)
(* The state before __init__ runs.                                         *)
(***************************************************************************)
NoCfg == [variant |-> "none", update_rule |-> "none", freeze_interval |-> 0,
          num_hidden_layers |-> 0, seed |-> 0]

InitEstimator ==
    /\ phase = "new"
    /\ cfg = NoCfg
    /\ l_out = NoNetwork
    /\ next_l_out = NoNetwork
    /\ update_counter = -1
    /\ states_shared = NoArray
    /\ actions_shared = NoArray
    /\ rewards_shared = NoArray
    /\ next_states_shared = NoArray
    /\ terminals_shared = NoArray
    /\ built = {}
    /\ last = NoCall
    /\ hist = NoHist

NoLoss == [reward |-> Zero, terminal |-> 0, discount |-> Zero,
           next_q_row |-> <<>>, q_row |-> <<>>, action |-> 0]

Init ==
    /\ InitEstimator
    /\ lossIn = NoLoss
    /\ lossOut = [done |-> FALSE]

(***************************************************************************)
(* __init__ and initialize_network.  initialize_updates is step 5: it      *)
(* raises ValueError for an unrecognized update_rule, after the networks,  *)
(* the buffers and the loss have been made, and before the functions are   *)
(* compiled and update_counter is set.                                     *)
(***************************************************************************)
BuildNetwork(variant, num_hidden_layers, seed, drawn) ==
    IF variant = "dense" THEN DenseBuildNetwork(num_hidden_layers, seed, drawn)
    ELSE ConvBuildNetwork(seed, drawn)

\* the weight arrays one build_network call draws
Draws(variant, num_hidden_layers) ==
    IF variant = "dense" THEN num_hidden_layers + 1 ELSE 2

\* initialize_updates: whether the rule is one it knows
UpdateRuleKnown(update_rule) == update_rule \in {"adam", "rmsprop", "sgd"}

Construct(variant, update_rule, freeze_interval, num_hidden_layers, seed) ==
    LET live == BuildNetwork(variant, num_hidden_layers, seed, 0)
        target == BuildNetwork(variant, num_hidden_layers, seed,
                               Draws(variant, num_hidden_layers))
        z == [i \in 1..batch_size, j \in 1..input_shape |-> Zero]
        ok == UpdateRuleKnown(update_rule)
    IN  /\ phase = "new"
        /\ cfg' = [variant |-> variant, update_rule |-> update_rule,
                   freeze_interval |-> freeze_interval,
                   num_hidden_layers |-> num_hidden_layers, seed |-> seed]
        /\ l_out' = live
        /\ next_l_out' = ResetTargetNetwork(live, target)
        /\ states_shared' = StatesArray(variant, batch_size, z)
        /\ next_states_shared' = StatesArray(variant, batch_size, z)
        /\ rewards_shared' = Zeros(batch_size, 1)
        /\ actions_shared' = IntZeros(batch_size, 1)
        /\ terminals_shared' = IntZeros(batch_size, 1)
        /\ built' = {"networks", "target_sync", "buffers", "loss"}
                    \cup (IF ok THEN {"updates", "functions"} ELSE {})
        /\ update_counter' = IF ok THEN 0 ELSE -1
        /\ phase' = IF ok THEN "ready" ELSE "failed"
        /\ last' = [op |-> "init", arg |-> <<>>, result |-> <<>>,
                    error |-> IF ok THEN "none" ELSE "ValueError"]
        /\ hist' = NoHist
        /\ UNCHANGED <<lossIn, lossOut>>

(***************************************************************************)
(* train.  The batch is Batch(variant, id, defect); outcome is what the    *)
(* update rule leaves in the live parameters when self._train() runs.      *)
(***************************************************************************)
TrainStep(id, defect) ==
    \E batch \in {Batch(cfg.variant, id, defect)},
       sync \in {SyncDue(update_counter, cfg.freeze_interval)} :
    \E target \in {IF sync THEN ResetTargetNetwork(l_out, next_l_out)
                   ELSE next_l_out},
       rejected \in {FirstRejected(cfg.variant, batch, 1)} :
    LET set(field, old, new) == IF Position(field) < rejected THEN new ELSE old
    IN
    \E S \in {set("states", states_shared, batch.states)},
       A \in {set("actions", actions_shared, AsTypeInt32(batch.actions))},
       R \in {set("rewards", rewards_shared, batch.rewards)},
       NS \in {set("next_states", next_states_shared, batch.next_states)},
       T \in {set("terminals", terminals_shared, AsTypeInt32(batch.terminals))} :
    \E runs \in {rejected > Len(FieldOrder) /\ RunShapesOK(S, A, R, NS, T)} :
    \E loss \in {IF runs THEN TrainLoss(cfg.variant, l_out, target,
                                        S, A, R, NS, T)
                 ELSE <<>>},
       outcome \in (IF runs THEN UpdateOutcomes(l_out)
                    ELSE {GetAllParamValues(l_out)}) :
        /\ next_l_out' = target
        /\ update_counter' = update_counter + 1
        /\ states_shared' = S
        /\ actions_shared' = A
        /\ rewards_shared' = R
        /\ next_states_shared' = NS
        /\ terminals_shared' = T
        /\ l_out' = IF runs THEN SetAllParamValues(l_out, outcome).net ELSE l_out
        /\ last' = [op |-> "train", arg |-> <<id, defect>>,
                    error |-> IF rejected <= Len(FieldOrder) THEN "TypeError"
                              ELSE IF runs THEN "none" ELSE "ValueError",
                    result |-> loss]
        /\ hist' = [calls |-> hist.calls + 1,
                    syncCall |-> IF sync THEN hist.calls ELSE hist.syncCall,
                    syncLive |-> IF sync THEN GetAllParamValues(l_out)
                                 ELSE hist.syncLive,
                    targetUsed |-> GetAllParamValues(target),
                    overwritten |-> hist.overwritten \/ sync,
                    sinceOverwrite |-> IF sync THEN 1 ELSE hist.sinceOverwrite + 1,
                    gap |-> IF sync /\ hist.overwritten
                            THEN hist.sinceOverwrite ELSE hist.gap,
                    trainSynced |-> hist.trainSynced \/ sync,
                    sinceTrainSync |-> IF sync THEN 1 ELSE hist.sinceTrainSync + 1,
                    trainGap |-> IF sync /\ hist.trainSynced
                                 THEN hist.sinceTrainSync ELSE hist.trainGap]
        /\ UNCHANGED <<phase, cfg, built, lossIn, lossOut>>

TrainWith(defects, limit) ==
    /\ phase = "ready"
    /\ update_counter < limit
    /\ \E id \in BatchIds, defect \in defects : TrainStep(id, defect)

\* train on any batch
Train == TrainWith(Defects, MaxTrainCalls)

\* train on a batch of the configured shapes, or on one whose actions are
\* flat as in train's example call
RunDefects == {<<"none", "none">>, <<"actions", "flat">>}

TrainInRun == TrainWith(RunDefects, MaxCalls)

(***************************************************************************)
(* get_q_values.                                                           *)
(***************************************************************************)
GetQValuesStep(q) ==
    \E state \in {QueryState(cfg.variant, q)} :
    \E states \in {FakeBatch(cfg.variant, state)} :
        /\ states_shared' = states
        /\ last' = [op |-> "get_q_values", arg |-> state, error |-> "none",
                    result |-> GetQValuesFunction(l_out, states)[1]]
        /\ UNCHANGED <<phase, cfg, l_out, next_l_out, update_counter,
                       actions_shared, rewards_shared, next_states_shared,
                       terminals_shared, built, hist, lossIn, lossOut>>

GetQValues ==
    /\ phase = "ready"
    /\ \E q \in QueryStates : GetQValuesStep(q)

(***************************************************************************)
(* get_params and set_params.  ConvQNetwork defines no set_params: the     *)
(* call raises AttributeError.                                             *)
(***************************************************************************)
GetParams ==
    /\ phase = "ready"
    /\ last' = [op |-> "get_params", arg |-> <<>>, error |-> "none",
                result |-> GetAllParamValues(l_out)]
    /\ UNCHANGED <<phase, cfg, l_out, next_l_out, update_counter, states_shared,
                   actions_shared, rewards_shared, next_states_shared,
                   terminals_shared, built, hist, lossIn, lossOut>>

HasSetParams(variant) == variant = "dense"

SetParams(params, source) ==
    \E r \in {SetAllParamValues(l_out, params)},
       defined \in {HasSetParams(cfg.variant)} :
    LET done == defined /\ r.error = "none"
    IN  /\ l_out' = IF defined THEN r.net ELSE l_out
        /\ next_l_out' = IF done THEN ResetTargetNetwork(r.net, next_l_out)
                         ELSE next_l_out
        /\ last' = [op |-> "set_params", arg |-> <<source, params>>,
                    result |-> <<>>,
                    error |-> IF ~defined THEN "AttributeError" ELSE r.error]
        /\ hist' = IF done
                   THEN [hist EXCEPT !.overwritten = TRUE,
                                     !.sinceOverwrite = 0,
                                     !.gap = IF hist.overwritten
                                             THEN hist.sinceOverwrite ELSE @]
                   ELSE hist
        /\ UNCHANGED <<phase, cfg, update_counter, states_shared, actions_shared,
                       rewards_shared, next_states_shared, terminals_shared,
                       built, lossIn, lossOut>>

\* set_params(get_params()): the argument is what get_params just returned
RestoreParams ==
    /\ phase = "ready"
    /\ last.op = "get_params"
    /\ SetParams(last.result, "get_params")

\* set_params with values made elsewhere, fitting or not
LoadParams ==
    /\ phase = "ready"
    /\ \E params \in {Refill(l_out, c) : c \in Fillings} \cup Misshapen(l_out) :
          SetParams(params, "elsewhere")

(***************************************************************************)
(* Specifications.                                                         *)
(***************************************************************************)
\* an estimator with a recognized update rule; the dense one with no hidden
\* layer or MaxHidden of them
ConstructReady ==
    \E variant \in Variants, freeze_interval \in 1..MaxFreeze :
       \E num_hidden_layers \in (IF variant = "dense" THEN {0, MaxHidden} ELSE {0}) :
          Construct(variant, "adam", freeze_interval, num_hidden_layers, 1)

\* any construction
ConstructAny ==
    \E variant \in Variants, update_rule \in UpdateRules,
       freeze_interval \in 1..MaxFreeze, seed \in Seeds :
       \E num_hidden_layers \in (IF variant = "dense" THEN 0..MaxHidden ELSE {0}) :
          Construct(variant, update_rule, freeze_interval, num_hidden_layers, seed)

Next ==
    \/ ConstructReady
    \/ TrainInRun
    \/ GetQValues
    \/ GetParams
    \/ RestoreParams
    \/ LoadParams

Spec == Init /\ [][Next]_vars

\* runs of train calls alone
NextTrain == ConstructReady \/ Train

SpecTrain == Init /\ [][NextTrain]_vars

\* runs of train and get_q_values calls
TrainBeforeQuery == TrainWith(Defects, MaxCalls)

NextQuery == ConstructReady \/ TrainBeforeQuery \/ GetQValues

SpecQuery == Init /\ [][NextQuery]_vars

\* construction alone
NextConstruct == ConstructAny

SpecConstruct == Init /\ [][NextConstruct]_vars

(***************************************************************************)
(* The per-row loss on its own: the inputs are drawn, and one step         *)
(* computes target, diff and the row's loss from them.                     *)
(***************************************************************************)
QVals == {Rat(n, 2) : n \in -MaxQ..MaxQ}
RewardVals == {Rat(n, 2) : n \in -MaxReward..MaxReward}
Discounts == {Rat(n, DiscDen) : n \in 0..DiscDen}
QRows == [1..num_actions -> QVals]
DiffSamples == {Rat(n, 2) : n \in -MaxDiff..MaxDiff}

LossInputs ==
    [reward : RewardVals, terminal : {0, 1}, discount : Discounts,
     next_q_row : QRows, q_row : QRows, action : 0..(num_actions - 1)]

InitLoss ==
    /\ InitEstimator
    /\ lossIn \in LossInputs
    /\ lossOut = [done |-> FALSE]

EvalLoss ==
    /\ ~lossOut.done
    /\ \E target \in {Target(lossIn.reward, lossIn.terminal, lossIn.discount,
                             lossIn.next_q_row)} :
       \E diff \in {Diff(target, lossIn.q_row, lossIn.action)} :
          lossOut' = [done |-> TRUE, target |-> target, diff |-> diff,
                      row_loss |-> RowLoss(diff)]
    /\ UNCHANGED <<estimator, lossIn>>

NextLoss == EvalLoss

SpecLoss == InitLoss /\ [][NextLoss]_vars

(***************************************************************************)
(* scripts/state_adapters.py: CoordinatesToSingleRoomRowColAdapter.  The   *)
(* adapter holds room_size alone; a call is recorded in last.              *)
(***************************************************************************)
\* an index with the coordinate taken as counted from 1
RoomIndexFromOne(idx, room_size) == (idx - 1) % room_size

\* ridx % self.room_size: Python's %, whose result has the sign of a
\* positive room_size
RoomIndex(idx, room_size) == idx - room_size * (idx \div room_size)

\* row = np.zeros(room_size); row[index] = 1: a sequence whose element
\* i + 1 is the array's element i
OneHot(room_size, index) ==
    [[i \in 1..room_size |-> 0] EXCEPT ![index + 1] = 1]

\* np.hstack((row, col))
HStack(row, col) == row \o col

convert_state_to_agent_format(room_size, state) ==
    LET ridx == state[1]
        cidx == state[2]
        row == OneHot(room_size, RoomIndex(ridx, room_size))
        col == OneHot(room_size, RoomIndex(cidx, room_size))
    IN  HStack(row, col)

RoomSizes == 1..MaxRoomSize
Coords == (-MaxCoord)..MaxCoord

ConvertState ==
    /\ \E room_size \in RoomSizes, ridx \in Coords, cidx \in Coords :
          last' = [op |-> "convert_state_to_agent_format",
                   arg |-> <<room_size, <<ridx, cidx>> >>,
                   error |-> "none",
                   result |-> convert_state_to_agent_format(room_size,
                                                            <<ridx, cidx>>)]
    /\ UNCHANGED <<phase, cfg, l_out, next_l_out, update_counter, states_shared,
                   actions_shared, rewards_shared, next_states_shared,
                   terminals_shared, built, hist, lossIn, lossOut>>

NextEncoder == ConvertState

SpecEncoder == Init /\ [][NextEncoder]_vars

(***************************************************************************)
(* Properties.                                                             *)
(***************************************************************************)
\* C1 as stated: after each train call numbered 0, k, 2k, ... the live and
\* the target parameters are identical.
C1_SyncedAfterCall ==
    (last.op = "train" /\ (hist.calls - 1) % cfg.freeze_interval = 0)
        => GetAllParamValues(l_out) = GetAllParamValues(next_l_out)

\* C1, amended: after each train call numbered 0, k, 2k, ... the target
\* parameters are the live parameters as they were when the call began.
C1_TargetIsLiveAtCallStart ==
    [][(last'.op = "train" /\ hist'.calls = hist.calls + 1
        /\ hist.calls % cfg.freeze_interval = 0)
          => GetAllParamValues(next_l_out') = GetAllParamValues(l_out)]_vars

\* a sync call, not the first, whose update changed the live parameters
C1_Witness ==
    /\ last.op = "train"
    /\ last.error = "none"
    /\ hist.calls > 1
    /\ (hist.calls - 1) % cfg.freeze_interval = 0
    /\ GetAllParamValues(l_out) # GetAllParamValues(next_l_out)

\* C2: in a run of train calls, update_counter is the call's number and
\* grows by one in every call; the calls whose update_counter is a multiple
\* of freeze_interval copy the live parameters, as they are when the call
\* begins, into the target before the update, and every other call leaves
\* the target as it was; so the call computes with the live parameters of
\* the start of call k * floor(n / k).
C2_SyncPolicy ==
    [][(last'.op = "train" /\ hist'.calls = hist.calls + 1) =>
          /\ update_counter = hist.calls
          /\ update_counter' = update_counter + 1
          /\ IF update_counter % cfg.freeze_interval = 0
             THEN /\ GetAllParamValues(next_l_out') = GetAllParamValues(l_out)
                  /\ hist'.targetUsed = GetAllParamValues(l_out)
                  /\ hist'.syncCall = hist.calls
             ELSE /\ next_l_out' = next_l_out
                  /\ hist'.targetUsed = GetAllParamValues(next_l_out)
                  /\ hist'.syncCall = hist.syncCall
          /\ hist'.syncCall =
                cfg.freeze_interval * (hist.calls \div cfg.freeze_interval)
          /\ hist'.targetUsed = hist'.syncLive]_vars

\* a call that does not sync, made with a target that differs from the live
\* parameters the call began with
C2_Witness ==
    /\ last.op = "train"
    /\ last.error = "none"
    /\ cfg.freeze_interval > 1
    /\ hist.syncCall < hist.calls - 1
    /\ hist.syncCall > 0
    /\ hist.targetUsed # GetAllParamValues(l_out)

\* C3 as stated: between any two consecutive overwrites of the target,
\* whichever operation makes them, exactly freeze_interval train calls take
\* place.
C3_FrozenBetweenOverwrites ==
    (cfg.variant = "dense" /\ last.error = "none" /\ hist.gap # -1)
        => hist.gap = cfg.freeze_interval

\* C3, amended: between two consecutive overwrites of the target made by
\* train, exactly freeze_interval train calls take place, whatever other
\* calls come between; set_params overwrites the target with the loaded
\* parameters at once and leaves update_counter as it is.
C3_FrozenBetweenTrainSyncs ==
    [][/\ hist'.trainGap # -1 => hist'.trainGap = cfg'.freeze_interval
       /\ last'.op = "set_params" => update_counter' = update_counter
       /\ (last'.op = "set_params" /\ last'.error = "none")
             => GetAllParamValues(next_l_out') = GetAllParamValues(l_out')]_vars

\* a second sync by train, with a set_params between it and the first
C3_Witness ==
    /\ last.op = "train"
    /\ cfg.freeze_interval > 1
    /\ hist.trainGap = cfg.freeze_interval
    /\ hist.gap # -1
    /\ hist.gap < cfg.freeze_interval

\* C4: on the dense estimator set_params(p) with fitting p makes the live
\* and the target parameters p, and set_params(get_params()) succeeds and
\* leaves the live parameters as they were.
C4_SetParamsRoundTrip ==
    [][(last'.op = "set_params" /\ cfg.variant = "dense") =>
          /\ last'.error = "none" =>
                /\ GetAllParamValues(l_out') = last'.arg[2]
                /\ GetAllParamValues(next_l_out') = last'.arg[2]
          /\ last'.arg[1] = "get_params" =>
                /\ last'.error = "none"
                /\ GetAllParamValues(l_out') = GetAllParamValues(l_out)
                /\ GetAllParamValues(next_l_out') = GetAllParamValues(l_out)]_vars

\* set_params(get_params()) after training, on an estimator whose target
\* was behind its live parameters
C4_Witness ==
    /\ last.op = "set_params"
    /\ last.arg[1] = "get_params"
    /\ cfg.variant = "dense"
    /\ hist.calls > 0
    /\ hist.targetUsed # GetAllParamValues(next_l_out)
    /\ GetAllParamValues(l_out) = GetAllParamValues(next_l_out)

\* C5 as stated: a construction that fails for its update_rule has created
\* no network and run no step of initialize_network.
C5_FailsBeforeAnyWork ==
    phase = "failed" =>
        /\ l_out = NoNetwork
        /\ next_l_out = NoNetwork
        /\ built = {}

\* C6 as stated: a train call that raises leaves update_counter, both
\* networks and the five buffers as they were.
C6_FailedTrainChangesNothing ==
    [][(last'.op = "train" /\ last'.error # "none") =>
          UNCHANGED <<update_counter, l_out, next_l_out, states_shared,
                      actions_shared, rewards_shared, next_states_shared,
                      terminals_shared>>]_vars

\* C7: the target of a row is reward + (1 - terminal) * discount * (the
\* largest next Q-value); it is the reward when terminal = 1; and the row's
\* TD error and loss use only the Q-value of the action taken.
C7_TargetAndDiff ==
    lossOut.done =>
        LET bootstrap(a) == RAdd(lossIn.reward,
                                 RMul(lossIn.discount, lossIn.next_q_row[a]))
            taken == lossIn.action + 1
        IN  /\ lossIn.terminal = 1 => lossOut.target = lossIn.reward
            /\ lossIn.terminal = 0 =>
                  /\ \E a \in 1..num_actions : lossOut.target = bootstrap(a)
                  /\ \A a \in 1..num_actions : RLeq(bootstrap(a), lossOut.target)
            /\ lossOut.diff = RSub(lossOut.target, lossIn.q_row[taken])
            /\ \A other \in QRows :
                  other[taken] = lossIn.q_row[taken] =>
                     RowLoss(Diff(lossOut.target, other, lossIn.action))
                        = lossOut.row_loss

\* a terminal row whose next Q-values and discount are not zero
C7_Witness ==
    /\ lossOut.done
    /\ lossIn.terminal = 1
    /\ lossIn.discount # Zero
    /\ RMaxSeq(lossIn.next_q_row) # Zero
    /\ lossIn.q_row[1] # lossIn.q_row[2]
    /\ lossOut.target = lossIn.reward

\* C8: the row loss is diff^2 / 2 for |diff| <= 1 and |diff| - 1/2 for
\* |diff| >= 1 (1/2 at |diff| = 1, 3/2 at |diff| = 2), is the same for diff
\* and -diff, and does not decrease as |diff| grows.
C8_RowLoss ==
    lossOut.done =>
        LET d == lossOut.diff
            m == RAbs(d)
        IN  /\ RLeq(m, One) => lossOut.row_loss = RMul(Half, RMul(d, d))
            /\ RLeq(One, m) => lossOut.row_loss = RSub(m, Half)
            /\ m = One => lossOut.row_loss = Half
            /\ m = <<2, 1>> => lossOut.row_loss = <<3, 2>>
            /\ RowLoss(RSub(Zero, d)) = lossOut.row_loss
            /\ \A e \in DiffSamples :
                  RLeq(RAbs(e), m) => RLeq(RowLoss(e), lossOut.row_loss)

\* a row whose TD error is -2
C8_Witness ==
    /\ lossOut.done
    /\ lossOut.diff = <<-2, 1>>
    /\ lossOut.row_loss = <<3, 2>>

\* C9: get_q_values returns the live network's Q-values of the state it is
\* given, whatever the states buffer held; it leaves the state in the first
\* row of the buffer and zeros in the others; and it changes neither network
\* nor update_counter.
C9_QueryIsolation ==
    [][last'.op = "get_q_values" =>
          /\ last'.result = LayerOutput(l_out, l_out.out, last'.arg)
          /\ states_shared'.data[1] = last'.arg
          /\ \A i \in 2..batch_size :
                states_shared'.data[i] =
                    StatesArray(cfg.variant, batch_size,
                                [r \in 1..batch_size, c \in 1..input_shape |->
                                    Zero]).data[i]
          /\ UNCHANGED <<l_out, next_l_out, update_counter>>]_vars

\* a query after a train call, for another state than the batch left in the
\* first row
C9_Witness ==
    /\ last.op = "get_q_values"
    /\ hist.calls > 0
    /\ actions_shared # IntZeros(batch_size, 1)
    /\ last.result[1] # last.result[2]

\* C10 as stated: on either estimator set_params(get_params()) succeeds and
\* leaves the live and the target parameters equal to its argument.
C10_BothVariantsRestore ==
    (last.op = "set_params" /\ last.arg[1] = "get_params") =>
        /\ last.error = "none"
        /\ GetAllParamValues(l_out) = last.arg[2]
        /\ GetAllParamValues(next_l_out) = last.arg[2]

====
